---- MODULE Spec2Model ----
(***************************************************************************)
(* Table storage engine of r-nacos (src/raft/db/table.rs): the registry    *)
(* TableManage over one sled database, the persisted catalog of            *)
(* TableDefinition records, the per-table TableSequence, and the actix     *)
(* command actor Handler<TableManageCmd>; and the gRPC handler of config    *)
(* queries (src/grpc/handler/config_query.rs) in front of the config actor. *)
(***************************************************************************)
EXTENDS Naturals, Sequences, FiniteSets, TLC

VARIABLES
    db,         \* the sled database: its trees and the sequence anchors
    table_map,  \* TableManage.table_map: name -> TableInfo
    status,     \* "running", or "crashed" once a handler has panicked
    mailbox,    \* commands sent to the actor and not yet handled
    reply,      \* the last command handled and what its caller received
    issued,     \* history: per table, every ID a NextId command returned
    live,       \* history: per table, the issued IDs the anchor is not below
    defined,    \* history: per table, the step of its last lazy definition
    written,    \* history: per table and key, the value last written, if any
    life,       \* history kept in CrashSpec: per table, the step of the
                \* first Set or NextId for it, until a Drop is sent for it
    arrived,    \* history: commands in arrival order since the actor started
    handled,    \* history: how many of them have been handled
    base,       \* history: the registry as the actor started with it
    config,     \* the config actor: whether it runs, and the data it holds
    answer      \* the last config query: what send gave, what handle returned

query_vars == <<config, answer>>

vars == <<db, table_map, status, mailbox, reply, issued, live, defined,
          written, life, arrived, handled, base, config, answer>>

-----------------------------------------------------------------------------
(* Bounds of the model *)

\* the explicit seq_step a NextId command may carry (besides none and 0)
SmallStep == 2
\* the largest last_seq_id a Set or SetSeqId command carries
MaxSeqId == 3
\* NextId commands are handled while the ID they return is at most this
MaxId == 4
\* capacity of the mailbox, and commands sent per actor life, in MailboxSpec
MaxQueue == 2
MaxSends == 3

Names == {"a", "b"}
\* config keys (data_id; one group, the default tenant), contents and tags
DataIds == {"d1", "d2"}
Contents == {"c1", "c2"}
Tags == {"t"}
\* the tables that NextId, SetSeqId and Set with a last_seq_id are sent for
SeqNames == {"a"}
Keys == {"k"}
\* Vec<u8> values of two bytes each
Values == {<<1, 1>>, <<2, 2>>}

\* Option<T>: None is the empty sequence, Some(x) the sequence of x alone
None == <<>>
Some(x) == <<x>>
is_some(o) == o # <<>>
unwrap(o) == o[1]
unwrap_or(o, default) == IF is_some(o) THEN unwrap(o) ELSE default
unwrap_or_zero(o) == unwrap_or(o, 0)

\* Option<u32> seq_step and Option<u64> last_seq_id of the commands
SeqSteps == {None, Some(0), Some(SmallStep)}
LastSeqIds == {None, Some(0), Some(MaxSeqId)}

-----------------------------------------------------------------------------
(* TableDefinition and its prost encoding *)

\* to_bytes with the sequence_step field left out of the encoding
to_bytes_nostep(definition) ==
    IF definition.name = "" THEN <<>>
    ELSE <<[tag |-> 1, val |-> definition.name]>>

\* prost::Message::encode: proto3 writes a field only when it is not the
\* default value ("" for the string, 0 for the uint32), as (tag, value).
to_bytes(definition) ==
    (IF definition.name = "" THEN <<>>
     ELSE <<[tag |-> 1, val |-> definition.name]>>)
    \o (IF definition.sequence_step = 0 THEN <<>>
        ELSE <<[tag |-> 2, val |-> definition.sequence_step]>>)

RECURSIVE decode_fields(_, _)
decode_fields(v, acc) ==
    IF v = <<>> THEN acc
    ELSE decode_fields(Tail(v),
            IF Head(v).tag = 1 THEN [acc EXCEPT !.name = Head(v).val]
            ELSE IF Head(v).tag = 2
                 THEN [acc EXCEPT !.sequence_step = Head(v).val]
                 ELSE acc)

\* prost::Message::decode: absent fields keep their defaults.
from_bytes(v) == decode_fields(v, [name |-> "", sequence_step |-> 0])

TABLE_DEFINITION_TREE_NAME == "tables"

-----------------------------------------------------------------------------
(* sled: a database is a set of named trees, each a map from key to value *)

EmptyTree == [k \in {} |-> <<>>]

tree_insert(tree, key, value) ==
    [k \in DOMAIN tree \cup {key} |-> IF k = key THEN value ELSE tree[k]]

tree_remove(tree, key) ==
    [k \in DOMAIN tree \ {key} |-> tree[k]]

\* Tree::insert and Tree::remove return the previous value
tree_get(tree, key) == IF key \in DOMAIN tree THEN Some(tree[key]) ELSE None

\* Db::open_tree creates the tree when it does not exist
open_tree(d, name) ==
    IF name \in DOMAIN d.trees THEN d
    ELSE [d EXCEPT !.trees =
            [n \in DOMAIN d.trees \cup {name} |->
                IF n = name THEN EmptyTree ELSE d.trees[n]]]

drop_tree(d, name) ==
    [d EXCEPT !.trees = [n \in DOMAIN d.trees \ {name} |-> d.trees[n]]]

put(d, name, key, value) ==
    [d EXCEPT !.trees[name] = tree_insert(d.trees[name], key, value)]

del(d, name, key) ==
    [d EXCEPT !.trees[name] = tree_remove(d.trees[name], key)]

-----------------------------------------------------------------------------
(* TableSequence (crate::common::sled_utils), from its contract *)

anchor(d, key) == IF key \in DOMAIN d.seqs THEN d.seqs[key] ELSE 0

set_anchor(d, key, value) ==
    [d EXCEPT !.seqs =
        [s \in DOMAIN d.seqs \cup {key} |->
            IF s = key THEN value ELSE d.seqs[s]]]

\* TableSequence::new: nothing buffered yet
TableSequence_new(key, step) ==
    [key |-> key, step |-> step, last |-> 0, limit |-> 0]

\* TableSequence::next_id: hands out the buffered block; when it is used up
\* moves the persisted anchor one step on and buffers the block below it.
seq_next_id(d, seq) ==
    IF seq.last < seq.limit
    THEN [db |-> d, seq |-> [seq EXCEPT !.last = seq.last + 1],
          id |-> seq.last + 1]
    ELSE LET a == anchor(d, seq.key) IN
         [db |-> set_anchor(d, seq.key, a + seq.step),
          seq |-> [seq EXCEPT !.last = a + 1, !.limit = a + seq.step],
          id |-> a + 1]

\* TableSequence::set_table_last_id: forces the persisted anchor and forgets
\* the buffered block; with ok = FALSE the write fails and nothing changes.
set_table_last_id(d, seq, value, ok) ==
    IF ok
    THEN [db |-> set_anchor(d, seq.key, value),
          seq |-> [seq EXCEPT !.last = 0, !.limit = 0]]
    ELSE [db |-> d, seq |-> seq]

-----------------------------------------------------------------------------
(* TableInfo and TableManage *)

TableInfo_new(name, sequence_step) ==
    [name |-> name,
     table_db_name |-> "t_" \o name,
     seq |-> IF sequence_step = 0 THEN None
             ELSE Some(TableSequence_new("seq_" \o name, sequence_step))]

\* the definitions the catalog tree holds
catalog(d) ==
    {from_bytes(d.trees[TABLE_DEFINITION_TREE_NAME][k]) :
        k \in DOMAIN d.trees[TABLE_DEFINITION_TREE_NAME]}

\* load_tables: one TableInfo per decoded catalog record, under its name
load_tables(d) ==
    LET d1 == open_tree(d, TABLE_DEFINITION_TREE_NAME)
        defs == catalog(d1)
    IN  [db |-> d1,
         table_map |->
            [n \in {definition.name : definition \in defs} |->
                LET definition == CHOOSE x \in defs : x.name = n
                IN  TableInfo_new(n, definition.sequence_step)]]

\* TableManage::new
TableManage_new(d) == load_tables(d)

init_table(d, name, sequence_step) ==
    LET d1 == open_tree(d, TABLE_DEFINITION_TREE_NAME)
        definition == [name |-> name, sequence_step |-> sequence_step]
    IN  put(d1, TABLE_DEFINITION_TREE_NAME, name, to_bytes(definition))

map_insert(tm, name, info) ==
    [n \in DOMAIN tm \cup {name} |-> IF n = name THEN info ELSE tm[n]]

map_remove(tm, name) == [n \in DOMAIN tm \ {name} |-> tm[n]]

Ok(x) == [tag |-> "Ok", val |-> x]
Err(e) == [tag |-> "Err", err |-> e]
Panic == [tag |-> "Panic"]

\* what an operation leaves behind and hands back
Out(d, tm, ret) == [db |-> d, table_map |-> tm, ret |-> ret]

\* drop_table that leaves the TableInfo in table_map
drop_table_keep(s, name, io) ==
    IF name \in DOMAIN s.table_map
    THEN LET table == s.table_map[name]
             d1 == IF is_some(table.seq)
                   THEN set_table_last_id(s.db, unwrap(table.seq), 0, io).db
                   ELSE s.db
         IN  Out(drop_tree(d1, table.table_db_name), s.table_map, None)
    ELSE Out(s.db, s.table_map, None)

\* drop_table that gives up when the anchor cannot be reset
drop_table_strict(s, name, io) ==
    IF name \in DOMAIN s.table_map
    THEN LET table == s.table_map[name]
             d1 == IF is_some(table.seq)
                   THEN set_table_last_id(s.db, unwrap(table.seq), 0, io).db
                   ELSE s.db
         IN  IF is_some(table.seq) /\ ~io
             THEN Out(s.db, map_remove(s.table_map, name), None)
             ELSE Out(drop_tree(d1, table.table_db_name),
                      map_remove(s.table_map, name), None)
    ELSE Out(s.db, s.table_map, None)

\* drop_table that removes the catalog entry of the table as well
drop_table_forget(s, name, io) ==
    IF name \in DOMAIN s.table_map
    THEN LET table == s.table_map[name]
             d1 == IF is_some(table.seq)
                   THEN set_table_last_id(s.db, unwrap(table.seq), 0, io).db
                   ELSE s.db
             d2 == del(d1, TABLE_DEFINITION_TREE_NAME, name)
         IN  Out(drop_tree(d2, table.table_db_name),
                 map_remove(s.table_map, name), None)
    ELSE Out(s.db, s.table_map, None)

drop_table(s, name, io) ==
    IF name \in DOMAIN s.table_map
    THEN LET table == s.table_map[name]
             d1 == IF is_some(table.seq)
                   THEN set_table_last_id(s.db, unwrap(table.seq), 0, io).db
                   ELSE s.db
         IN  Out(drop_tree(d1, table.table_db_name),
                 map_remove(s.table_map, name), None)
    ELSE Out(s.db, s.table_map, None)

\* next_id that allocates on a copy of the sequence and stores nothing
next_id_stale(s, name, seq_step) ==
    IF name \in DOMAIN s.table_map
    THEN IF is_some(s.table_map[name].seq)
         THEN Out(s.db, s.table_map,
                  Ok(seq_next_id(s.db, unwrap(s.table_map[name].seq)).id))
         ELSE Out(s.db, s.table_map, Err("seq is none"))
    ELSE Out(init_table(s.db, name, seq_step), s.table_map, Panic)

\* next_id that builds the TableInfo, and panics, before init_table
next_id_unwritten(s, name, seq_step) ==
    IF name \in DOMAIN s.table_map
    THEN IF is_some(s.table_map[name].seq)
         THEN LET r == seq_next_id(s.db, unwrap(s.table_map[name].seq)) IN
              Out(r.db, [s.table_map EXCEPT ![name].seq = Some(r.seq)],
                  Ok(r.id))
         ELSE Out(s.db, s.table_map, Err("seq is none"))
    ELSE Out(s.db, s.table_map, Panic)

\* next_id that gives a cached table without a sequence one on demand
next_id_enable(s, name, seq_step) ==
    IF name \in DOMAIN s.table_map
    THEN LET table_info == s.table_map[name]
             d1 == IF is_some(table_info.seq) \/ seq_step = 0 THEN s.db
                   ELSE init_table(s.db, name, seq_step)
             seq == IF is_some(table_info.seq) THEN table_info.seq
                    ELSE TableInfo_new(name, seq_step).seq
         IN  IF is_some(seq)
             THEN LET r == seq_next_id(d1, unwrap(seq)) IN
                  Out(r.db, [s.table_map EXCEPT ![name].seq = Some(r.seq)],
                      Ok(r.id))
             ELSE Out(s.db, s.table_map, Err("seq is none"))
    ELSE Out(init_table(s.db, name, seq_step), s.table_map, Panic)

next_id(s, name, seq_step) ==
    IF name \in DOMAIN s.table_map
    THEN LET table_info == s.table_map[name] IN
         IF is_some(table_info.seq)
         THEN LET r == seq_next_id(s.db, unwrap(table_info.seq)) IN
              Out(r.db,
                  [s.table_map EXCEPT ![name].seq = Some(r.seq)],
                  Ok(r.id))
         ELSE Out(s.db, s.table_map, Err("seq is none"))
    ELSE LET d1 == init_table(s.db, name, seq_step)
             table_info == TableInfo_new(name, 0)
         IN  IF ~is_some(table_info.seq)
             THEN Out(d1, s.table_map, Panic)    \* unwrap() of None
             ELSE LET r == seq_next_id(d1, unwrap(table_info.seq)) IN
                  Out(r.db,
                      map_insert(s.table_map, name,
                                 [table_info EXCEPT !.seq = Some(r.seq)]),
                      Ok(r.id))

\* set_last_seq_id that defines the table when it is not cached
set_last_seq_id_lazy(s, name, last_seq_id, io) ==
    IF name \in DOMAIN s.table_map
    THEN IF is_some(s.table_map[name].seq)
         THEN LET r == set_table_last_id(s.db, unwrap(s.table_map[name].seq),
                                         last_seq_id, io)
              IN  Out(r.db, [s.table_map EXCEPT ![name].seq = Some(r.seq)],
                      None)
         ELSE Out(s.db, s.table_map, None)
    ELSE Out(init_table(s.db, name, 0), s.table_map, None)

set_last_seq_id(s, name, last_seq_id, io) ==
    IF name \in DOMAIN s.table_map /\ is_some(s.table_map[name].seq)
    THEN LET r == set_table_last_id(s.db, unwrap(s.table_map[name].seq),
                                    last_seq_id, io)
         IN  Out(r.db, [s.table_map EXCEPT ![name].seq = Some(r.seq)], None)
    ELSE Out(s.db, s.table_map, None)

\* the cached path of insert with the sequence left alone (insert_noff), and
\* with last_seq_id.unwrap_or(0) written as the anchor (insert_reset)
insert_noff(s, name, key, value, last_seq_id, io) ==
    LET s1 == IF name \in DOMAIN s.table_map THEN s
              ELSE [db |-> init_table(s.db, name, 0),
                    table_map |-> map_insert(s.table_map, name,
                                             TableInfo_new(name, 0))]
        tree == s1.table_map[name].table_db_name
        d1 == open_tree(s1.db, tree)
    IN  Out(put(d1, tree, key, value), s1.table_map,
            tree_get(d1.trees[tree], key))

insert_reset(s, name, key, value, last_seq_id, io) ==
    LET s1 == IF name \in DOMAIN s.table_map THEN s
              ELSE [db |-> init_table(s.db, name, 0),
                    table_map |-> map_insert(s.table_map, name,
                                             TableInfo_new(name, 0))]
        info == s1.table_map[name]
        r == IF is_some(info.seq)
             THEN set_table_last_id(s1.db, unwrap(info.seq),
                                    unwrap_or_zero(last_seq_id), io)
             ELSE [db |-> s1.db, seq |-> None]
        info1 == IF is_some(info.seq) THEN [info EXCEPT !.seq = Some(r.seq)]
                 ELSE info
        d1 == open_tree(r.db, info.table_db_name)
    IN  Out(put(d1, info.table_db_name, key, value),
            [s1.table_map EXCEPT ![name] = info1],
            tree_get(d1.trees[info.table_db_name], key))

\* insert that writes the catalog entry only for a name that has none
insert_keepdef(s, name, key, value, last_seq_id, io) ==
    LET known == name \in DOMAIN s.db.trees[TABLE_DEFINITION_TREE_NAME]
        s1 == IF name \in DOMAIN s.table_map THEN s
              ELSE [db |-> IF known THEN s.db
                           ELSE init_table(s.db, name, 0),
                    table_map |-> map_insert(s.table_map, name,
                                             TableInfo_new(name, 0))]
        info == s1.table_map[name]
        force == is_some(info.seq) /\ is_some(last_seq_id)
        r == IF force
             THEN set_table_last_id(s1.db, unwrap(info.seq),
                                    unwrap(last_seq_id), io)
             ELSE [db |-> s1.db, seq |-> None]
        info1 == IF force THEN [info EXCEPT !.seq = Some(r.seq)] ELSE info
        d1 == open_tree(r.db, info.table_db_name)
    IN  Out(put(d1, info.table_db_name, key, value),
            [s1.table_map EXCEPT ![name] = info1],
            tree_get(d1.trees[info.table_db_name], key))

insert(s, name, key, value, last_seq_id, io) ==
    IF name \in DOMAIN s.table_map
    THEN LET table_info == s.table_map[name]
             r == IF is_some(table_info.seq) /\ is_some(last_seq_id)
                  THEN set_table_last_id(s.db, unwrap(table_info.seq),
                                         unwrap(last_seq_id), io)
                  ELSE [db |-> s.db, seq |-> None]
             info1 == IF is_some(table_info.seq) /\ is_some(last_seq_id)
                      THEN [table_info EXCEPT !.seq = Some(r.seq)]
                      ELSE table_info
             d1 == open_tree(r.db, table_info.table_db_name)
         IN  Out(put(d1, table_info.table_db_name, key, value),
                 [s.table_map EXCEPT ![name] = info1],
                 tree_get(d1.trees[table_info.table_db_name], key))
    ELSE LET d0 == init_table(s.db, name, 0)
             table_info == TableInfo_new(name, 0)
             r == IF is_some(table_info.seq) /\ is_some(last_seq_id)
                  THEN set_table_last_id(d0, unwrap(table_info.seq),
                                         unwrap(last_seq_id), io)
                  ELSE [db |-> d0, seq |-> None]
             info1 == IF is_some(table_info.seq) /\ is_some(last_seq_id)
                      THEN [table_info EXCEPT !.seq = Some(r.seq)]
                      ELSE table_info
             d1 == open_tree(r.db, table_info.table_db_name)
         IN  Out(put(d1, table_info.table_db_name, key, value),
                 map_insert(s.table_map, name, info1),
                 tree_get(d1.trees[table_info.table_db_name], key))

\* remove that creates the table, as insert does, when it is not cached
remove_autocreate(s, name, key) ==
    LET s1 == IF name \in DOMAIN s.table_map THEN s
              ELSE [db |-> init_table(s.db, name, 0),
                    table_map |-> map_insert(s.table_map, name,
                                             TableInfo_new(name, 0))]
        tree == s1.table_map[name].table_db_name
        d1 == open_tree(s1.db, tree)
    IN  Out(del(d1, tree, key), s1.table_map, tree_get(d1.trees[tree], key))

\* remove that returns the value and leaves it under its key
remove_keep(s, name, key) ==
    IF name \in DOMAIN s.table_map
    THEN LET table_info == s.table_map[name]
             d1 == open_tree(s.db, table_info.table_db_name)
         IN  Out(d1, s.table_map,
                 tree_get(d1.trees[table_info.table_db_name], key))
    ELSE Out(s.db, s.table_map, None)

remove(s, name, key) ==
    IF name \in DOMAIN s.table_map
    THEN LET table_info == s.table_map[name]
             d1 == open_tree(s.db, table_info.table_db_name)
         IN  Out(del(d1, table_info.table_db_name, key), s.table_map,
                 tree_get(d1.trees[table_info.table_db_name], key))
    ELSE Out(s.db, s.table_map, None)

-----------------------------------------------------------------------------
(* The command actor: Handler<TableManageCmd> for TableManage *)

Result_None == [kind |-> "None"]
Result_Value(v) == [kind |-> "Value", v |-> v]
Result_NextId(id) == [kind |-> "NextId", id |-> id]

\* seq_step.unwrap_or(100)
DefaultSeqStep == 100

Cmd_Set(t, k, v, l) ==
    [type |-> "Set", table_name |-> t, key |-> k, value |-> v,
     last_seq_id |-> l]
Cmd_Remove(t, k) == [type |-> "Remove", table_name |-> t, key |-> k]
Cmd_Drop(t) == [type |-> "Drop", table_name |-> t]
Cmd_NextId(t, st) == [type |-> "NextId", table_name |-> t, seq_step |-> st]
Cmd_SetSeqId(t, l) ==
    [type |-> "SetSeqId", table_name |-> t, last_seq_id |-> l]

option_result(r) ==
    IF is_some(r.ret)
    THEN Out(r.db, r.table_map, Ok(Result_Value(unwrap(r.ret))))
    ELSE Out(r.db, r.table_map, Ok(Result_None))

handle_Set(s, msg, io) ==
    option_result(insert(s, msg.table_name, msg.key, msg.value,
                         msg.last_seq_id, io))

handle_Remove(s, msg) == option_result(remove(s, msg.table_name, msg.key))

handle_Drop(s, msg, io) ==
    LET r == drop_table(s, msg.table_name, io)
    IN  Out(r.db, r.table_map, Ok(Result_None))

\* the NextId arm with seq_step.unwrap_or_default()
handle_NextId_zero(s, msg) ==
    LET r == next_id(s, msg.table_name, unwrap_or_zero(msg.seq_step))
    IN  IF r.ret.tag = "Ok"
        THEN Out(r.db, r.table_map, Ok(Result_NextId(r.ret.val)))
        ELSE IF r.ret.tag = "Err"
             THEN Out(r.db, r.table_map, Ok(Result_None))
             ELSE r

handle_NextId(s, msg) ==
    LET r == next_id(s, msg.table_name,
                     unwrap_or(msg.seq_step, DefaultSeqStep))
    IN  IF r.ret.tag = "Ok"
        THEN Out(r.db, r.table_map, Ok(Result_NextId(r.ret.val)))
        ELSE IF r.ret.tag = "Err"
             THEN Out(r.db, r.table_map, Ok(Result_None))
             ELSE r

handle_SetSeqId(s, msg, io) ==
    LET r == set_last_seq_id(s, msg.table_name, msg.last_seq_id, io)
    IN  Out(r.db, r.table_map, Ok(Result_None))

\* Handler<TableManageCmd>::handle
handle(s, msg, io) ==
    CASE msg.type = "Set" -> handle_Set(s, msg, io)
      [] msg.type = "Remove" -> handle_Remove(s, msg)
      [] msg.type = "Drop" -> handle_Drop(s, msg, io)
      [] msg.type = "NextId" -> handle_NextId(s, msg)
      [] msg.type = "SetSeqId" -> handle_SetSeqId(s, msg, io)

-----------------------------------------------------------------------------
(* ConfigQueryRequestHandler and the config actor it asks *)

SUCCESS_CODE == 200
ERROR_CODE == 500

ConfigKey_new(data_id, group, tenant) ==
    [data_id |-> data_id, group |-> group, tenant |-> tenant]

ConfigKeys == {ConfigKey_new(d, "g", "") : d \in DataIds}

\* ConfigQueryRequest as the JSON body carries it
ConfigQueryRequests ==
    [data_id : DataIds, group : {"g"}, tenant : {""},
     tag : {None} \cup {Some(t) : t \in Tags}]

\* request_payload.body: no body, bytes that are no JSON, or a request
Bodies ==
    {None, Some([kind |-> "junk"])}
    \cup {Some([kind |-> "json", request |-> r]) : r \in ConfigQueryRequests}

\* Option<Any>::unwrap_or_default().value: no body gives no bytes
body_value(body) == IF is_some(body) THEN unwrap(body) ELSE [kind |-> "empty"]

\* serde_json::from_slice: only a JSON document of the request parses
from_slice(body_vec) ==
    IF body_vec.kind = "json" THEN Ok(body_vec.request)
    ELSE Err("serde_json::Error")

\* MailboxError and its Display
MailboxErrors == {"Closed", "Timeout"}
to_string(err) ==
    IF err = "Closed" THEN "Mailbox has closed"
    ELSE "Message delivery timed out"

ConfigResult_DATA(content) == [kind |-> "DATA", content |-> content]
ConfigResult_NULL == [kind |-> "NULL"]

\* ConfigActor answering ConfigCmd::GET(key): the data it holds, or NULL;
\* with fails the actor's handler returns Err
ConfigActor_GET(cfg, key, fails) ==
    IF fails THEN Err("ConfigActor")
    ELSE Ok(IF is_some(cfg.data[key])
            THEN ConfigResult_DATA(unwrap(cfg.data[key]))
            ELSE ConfigResult_NULL)

\* Addr::send(cmd).await: Err(MailboxError) when the message is not
\* delivered, else Ok of what the actor's handler returned
send(cfg, key, delivery, fails) ==
    IF ~cfg.alive THEN Err("Closed")
    ELSE IF delivery # "Ok" THEN Err(delivery)
         ELSE Ok(ConfigActor_GET(cfg, key, fails))

\* ConfigQueryResponse::default()
ConfigQueryResponse_default ==
    [result_code |-> 0, error_code |-> 0, message |-> None, content |-> "",
     tag |-> None]

\* PayloadUtils::build_payload(type, serde_json::to_string(&response))
build_payload(type, response) == [type |-> type, json |-> response]

\* handle with "?" on the send: a delivery failure is returned as Err
ConfigQuery_handle_abort(cfg, body, delivery, fails) ==
    LET parsed == from_slice(body_value(body)) IN
    IF parsed.tag = "Err" THEN [sent |-> None, res |-> Err(parsed.err)]
    ELSE
    LET request == parsed.val
        sent == send(cfg, ConfigKey_new(request.data_id, request.group,
                                        request.tenant), delivery, fails)
        response == ConfigQueryResponse_default
    IN  IF sent.tag = "Err"
        THEN [sent |-> Some(sent), res |-> Err(to_string(sent.err))]
        ELSE IF sent.val.tag = "Err"
             THEN [sent |-> Some(sent), res |-> Panic]
             ELSE [sent |-> Some(sent),
                   res |-> Ok(build_payload("ConfigQueryResponse",
                        IF sent.val.val.kind = "DATA"
                        THEN [response EXCEPT
                                !.result_code = SUCCESS_CODE,
                                !.content = sent.val.val.content,
                                !.tag = request.tag]
                        ELSE [response EXCEPT
                                !.result_code = ERROR_CODE,
                                !.error_code = ERROR_CODE,
                                !.message =
                                    Some("config data not exist")]))]

\* ConfigQueryRequestHandler::handle: what send gave, if it was reached,
\* and what the handler returns
ConfigQuery_handle(cfg, body, delivery, fails) ==
    LET parsed == from_slice(body_value(body)) IN
    IF parsed.tag = "Err" THEN [sent |-> None, res |-> Err(parsed.err)]
    ELSE
    LET request == parsed.val
        cmd == ConfigKey_new(request.data_id, request.group, request.tenant)
        sent == send(cfg, cmd, delivery, fails)
        response == ConfigQueryResponse_default
    IN  IF sent.tag = "Ok"
        THEN IF sent.val.tag = "Err"
             THEN [sent |-> Some(sent), res |-> Panic]    \* res.unwrap()
             ELSE LET r == sent.val.val IN
                  [sent |-> Some(sent),
                   res |-> Ok(build_payload("ConfigQueryResponse",
                        IF r.kind = "DATA"
                        THEN [response EXCEPT
                                !.result_code = SUCCESS_CODE,
                                !.content = r.content,
                                !.tag = request.tag]
                        ELSE [response EXCEPT
                                !.result_code = ERROR_CODE,
                                !.error_code = ERROR_CODE,
                                !.message =
                                    Some("config data not exist")]))]
        ELSE [sent |-> Some(sent),
              res |-> Ok(build_payload("ConfigQueryResponse",
                        [response EXCEPT
                            !.result_code = ERROR_CODE,
                            !.error_code = ERROR_CODE,
                            !.message = Some(to_string(sent.err))]))]

-----------------------------------------------------------------------------
(* The state machine *)

EmptyDb == [trees |-> [n \in {} |-> EmptyTree], seqs |-> [k \in {} |-> 0]]

registry == [db |-> db, table_map |-> table_map]

\* reply: the kind of the last command, its table, what its caller received,
\* whether the table was in table_map when the command arrived and whether
\* the anchor writes of the command could succeed
Started == [type |-> "Restart", table_name |-> "", res |-> Ok(Result_None),
            cached |-> FALSE, io |-> TRUE]

Init ==
    /\ db = TableManage_new(EmptyDb).db
    /\ table_map = TableManage_new(EmptyDb).table_map
    /\ status = "running"
    /\ mailbox = <<>>
    /\ reply = Started
    /\ issued = [t \in Names |-> {}]
    /\ live = [t \in Names |-> {}]
    /\ defined = [t \in Names |-> None]
    /\ written = [t \in Names |-> [k \in Keys |-> None]]
    /\ life = [t \in Names |-> [first |-> None, dropped |-> FALSE]]
    /\ arrived = <<>>
    /\ handled = 0
    /\ base = TableManage_new(EmptyDb)
    /\ config = [alive |-> TRUE, data |-> [key \in ConfigKeys |-> None]]
    /\ answer = [sent |-> None, res |-> None]

\* the IDs a reply hands out
ids_of(res) ==
    IF res.tag = "Ok" /\ res.val.kind = "NextId" THEN {res.val.id} ELSE {}

\* the value a command makes set_table_last_id write as the anchor of its
\* table, if it does: the table is cached with a sequence and the write works
forced(s, msg, io) ==
    IF /\ io
       /\ msg.table_name \in DOMAIN s.table_map
       /\ is_some(s.table_map[msg.table_name].seq)
    THEN CASE msg.type = "Drop" -> Some(0)
           [] msg.type = "SetSeqId" -> Some(msg.last_seq_id)
           [] msg.type = "Set" -> msg.last_seq_id
           [] OTHER -> None
    ELSE None

\* the issued IDs that stay out of reach once the anchor is forced to f
kept(ids, f) == IF is_some(f) THEN {i \in ids : i <= unwrap(f)} ELSE ids

\* the values last written once the command is done: a Set writes its
\* value, a Remove removes its key, a Drop removes every key of its table
written_after(w, msg) ==
    CASE msg.type = "Set" ->
            [w EXCEPT ![msg.table_name][msg.key] = Some(msg.value)]
      [] msg.type = "Remove" -> [w EXCEPT ![msg.table_name][msg.key] = None]
      [] msg.type = "Drop" ->
            [w EXCEPT ![msg.table_name] = [k \in Keys |-> None]]
      [] OTHER -> w

\* the step a command asks for when it is the one that defines its table
step_of(msg) ==
    IF msg.type = "Set" THEN 0 ELSE unwrap_or(msg.seq_step, DefaultSeqStep)

\* the step of the first Set or NextId ever sent for each table; a Drop
\* sent for the table after that ends the record
life_after(f, msg) ==
    LET t == msg.table_name IN
    CASE msg.type = "Drop" /\ is_some(f[t].first) ->
            [f EXCEPT ![t] = [first |-> None, dropped |-> TRUE]]
      [] msg.type \in {"Set", "NextId"} /\ f[t].first = None
                                       /\ ~f[t].dropped ->
            [f EXCEPT ![t].first = Some(step_of(msg))]
      [] OTHER -> f

\* the actor runs one handler to its end, or to its panic
Run(msg, io) ==
    LET out == handle(registry, msg, io)
        t == msg.table_name
    IN  /\ status = "running"
        /\ ids_of(out.ret) \subseteq 1..MaxId
        /\ db' = out.db
        /\ table_map' = out.table_map
        /\ status' = IF out.ret.tag = "Panic" THEN "crashed" ELSE "running"
        /\ reply' = [type |-> msg.type, table_name |-> t, res |-> out.ret,
                     cached |-> t \in DOMAIN table_map, io |-> io]
        /\ issued' = [issued EXCEPT ![t] = @ \cup ids_of(out.ret)]
        /\ live' = [live EXCEPT ![t] =
                        kept(@, forced(registry, msg, io)) \cup ids_of(out.ret)]
        /\ defined' =
              IF msg.type \in {"Set", "NextId"} /\ t \notin DOMAIN table_map
              THEN [defined EXCEPT ![t] =
                      Some(IF msg.type = "Set" THEN 0
                           ELSE unwrap_or(msg.seq_step, DefaultSeqStep))]
              ELSE defined
        /\ written' = written_after(written, msg)
        /\ UNCHANGED query_vars

\* In Spec a command is sent and handled at once: nothing waits in the
\* mailbox, and the storage writes succeed.
Set(t, k, v, l) ==
    /\ mailbox = <<>>
    /\ Run(Cmd_Set(t, k, v, l), TRUE)
    /\ UNCHANGED <<mailbox, life, arrived, handled, base>>

Remove(t, k) ==
    /\ mailbox = <<>>
    /\ Run(Cmd_Remove(t, k), TRUE)
    /\ UNCHANGED <<mailbox, life, arrived, handled, base>>

Drop(t) ==
    /\ mailbox = <<>>
    /\ Run(Cmd_Drop(t), TRUE)
    /\ UNCHANGED <<mailbox, life, arrived, handled, base>>

NextId(t, st) ==
    /\ mailbox = <<>>
    /\ Run(Cmd_NextId(t, st), TRUE)
    /\ UNCHANGED <<mailbox, life, arrived, handled, base>>

SetSeqId(t, l) ==
    /\ mailbox = <<>>
    /\ Run(Cmd_SetSeqId(t, l), TRUE)
    /\ UNCHANGED <<mailbox, life, arrived, handled, base>>

\* the process ends (after a panic or not) and TableManage::new runs again
\* on the same database
Restart ==
    /\ db' = TableManage_new(db).db
    /\ table_map' = TableManage_new(db).table_map
    /\ status' = "running"
    /\ mailbox' = <<>>
    /\ reply' = Started
    /\ UNCHANGED <<issued, live, defined, written, life, arrived, handled,
                   base, query_vars>>

Next ==
    \/ \E t \in Names, k \in Keys, v \in Values :
        \E l \in IF t \in SeqNames THEN LastSeqIds ELSE {None} :
            Set(t, k, v, l)
    \/ \E t \in Names, k \in Keys : Remove(t, k)
    \/ \E t \in Names : Drop(t)
    \/ \E t \in SeqNames, st \in SeqSteps : NextId(t, st)
    \/ \E t \in SeqNames, l \in {0, MaxSeqId} : SetSeqId(t, l)
    \/ Restart

Spec == Init /\ [][Next]_vars

-----------------------------------------------------------------------------
(* The actor behind its mailbox: producers send, the actor takes the        *)
(* commands one at a time (Context<TableManage>, a synchronous handler)     *)

\* what producers send in MailboxSpec: NextId, Set and Remove for one table
MailboxCmds ==
    {Cmd_Set("a", k, v, l) : k \in Keys, v \in Values, l \in {None, Some(0)}}
    \cup {Cmd_NextId("a", Some(SmallStep))}
    \cup {Cmd_Remove("a", k) : k \in Keys}

\* a mailbox that hands out the newest message first
last_message(box) ==
    [msg |-> box[Len(box)], rest |-> SubSeq(box, 1, Len(box) - 1)]

\* the message the actor takes next, the oldest, and what stays behind
next_message(box) == [msg |-> Head(box), rest |-> Tail(box)]

\* a producer's send: the command joins the mailbox
Send(msg) ==
    /\ status = "running"
    /\ Len(mailbox) < MaxQueue
    /\ Len(arrived) < MaxSends
    /\ mailbox' = Append(mailbox, msg)
    /\ arrived' = Append(arrived, msg)
    /\ UNCHANGED <<db, table_map, status, reply, issued, live, defined,
                   written, life, handled, base, query_vars>>

\* the actor takes the next message and runs its handler to the end
Receive ==
    /\ mailbox # <<>>
    /\ Run(next_message(mailbox).msg, TRUE)
    /\ mailbox' = next_message(mailbox).rest
    /\ handled' = handled + 1
    /\ UNCHANGED <<life, arrived, base>>

\* the process ends and a new actor starts on the same database: what was
\* in the mailbox is gone with the old actor
RestartActor ==
    /\ db' = TableManage_new(db).db
    /\ table_map' = TableManage_new(db).table_map
    /\ status' = "running"
    /\ mailbox' = <<>>
    /\ reply' = Started
    /\ arrived' = <<>>
    /\ handled' = 0
    /\ base' = TableManage_new(db)
    /\ UNCHANGED <<issued, live, defined, written, life, query_vars>>

MailboxNext ==
    \/ \E msg \in MailboxCmds : Send(msg)
    \/ Receive
    \/ RestartActor

MailboxSpec == Init /\ [][MailboxNext]_vars

-----------------------------------------------------------------------------
(* The registry on a storage whose anchor writes can fail: set_table_last_id *)
(* returns Err and its callers go on (.ok())                                 *)

\* the commands of FaultSpec: every kind, for one table
FaultCmds ==
    {Cmd_Set("a", k, v, l) : k \in Keys, v \in Values, l \in LastSeqIds}
    \cup {Cmd_Remove("a", k) : k \in Keys}
    \cup {Cmd_Drop("a")}
    \cup {Cmd_NextId("a", st) : st \in SeqSteps}
    \cup {Cmd_SetSeqId("a", l) : l \in {0, MaxSeqId}}

\* one command, handled at once; io tells whether its anchor write succeeds
Command(msg, io) ==
    /\ mailbox = <<>>
    /\ Run(msg, io)
    /\ UNCHANGED <<mailbox, life, arrived, handled, base>>

FaultNext ==
    \/ \E msg \in FaultCmds, io \in BOOLEAN : Command(msg, io)
    \/ Restart

FaultSpec == Init /\ [][FaultNext]_vars

-----------------------------------------------------------------------------
(* The registry with a process that can die inside a command: what is in    *)
(* the database then is what the handler had written up to that point       *)

\* one effect of a handler: the registry after it, and what it did
Did(d, tm, what) == [db |-> d, table_map |-> tm, did |-> what]

\* insert that opens the data tree and caches the TableInfo first and writes
\* the catalog entry after them
insert_steps_late(s, name, key, value, last_seq_id, io) ==
    IF name \in DOMAIN s.table_map
    THEN LET tree == s.table_map[name].table_db_name
             d1 == open_tree(s.db, tree)
         IN  <<Did(d1, s.table_map, "open"),
               Did(put(d1, tree, key, value), s.table_map, "put")>>
    ELSE LET table_info == TableInfo_new(name, 0)
             tree == table_info.table_db_name
             d1 == open_tree(s.db, tree)
             tm == map_insert(s.table_map, name, table_info)
             d2 == init_table(d1, name, 0)
         IN  <<Did(d1, s.table_map, "open"),
               Did(d1, tm, "cache"),
               Did(d2, tm, "catalog"),
               Did(put(d2, tree, key, value), tm, "put")>>

\* insert, effect by effect
insert_steps(s, name, key, value, last_seq_id, io) ==
    IF name \in DOMAIN s.table_map
    THEN LET table_info == s.table_map[name]
             tree == table_info.table_db_name
             force == is_some(table_info.seq) /\ is_some(last_seq_id)
             r == IF force
                  THEN set_table_last_id(s.db, unwrap(table_info.seq),
                                         unwrap(last_seq_id), io)
                  ELSE [db |-> s.db, seq |-> None]
             tm == IF force
                   THEN [s.table_map EXCEPT ![name].seq = Some(r.seq)]
                   ELSE s.table_map
             d1 == open_tree(r.db, tree)
         IN  (IF force THEN <<Did(r.db, tm, "anchor")>> ELSE <<>>)
             \o <<Did(d1, tm, "open"),
                   Did(put(d1, tree, key, value), tm, "put")>>
    ELSE LET d0 == init_table(s.db, name, 0)
             table_info == TableInfo_new(name, 0)
             tree == table_info.table_db_name
             d1 == open_tree(d0, tree)
             tm == map_insert(s.table_map, name, table_info)
         IN  <<Did(d0, s.table_map, "catalog"),
               Did(d1, s.table_map, "open"),
               Did(d1, tm, "cache"),
               Did(put(d1, tree, key, value), tm, "put")>>

\* remove, effect by effect
remove_steps(s, name, key) ==
    IF name \in DOMAIN s.table_map
    THEN LET tree == s.table_map[name].table_db_name
             d1 == open_tree(s.db, tree)
         IN  <<Did(d1, s.table_map, "open"),
               Did(del(d1, tree, key), s.table_map, "del")>>
    ELSE <<>>

\* drop_table, effect by effect
drop_table_steps(s, name, io) ==
    IF name \in DOMAIN s.table_map
    THEN LET table == s.table_map[name]
             tm == map_remove(s.table_map, name)
             d1 == IF is_some(table.seq)
                   THEN set_table_last_id(s.db, unwrap(table.seq), 0, io).db
                   ELSE s.db
         IN  <<Did(s.db, tm, "uncache")>>
             \o (IF is_some(table.seq) THEN <<Did(d1, tm, "anchor")>>
                 ELSE <<>>)
             \o <<Did(drop_tree(d1, table.table_db_name), tm, "drop_tree")>>
    ELSE <<>>

\* next_id, effect by effect: on the uncached path init_table, then the
\* panic of unwrap()
next_id_steps(s, name, seq_step) ==
    IF name \in DOMAIN s.table_map
    THEN LET r == next_id(s, name, seq_step)
         IN  IF is_some(s.table_map[name].seq)
             THEN <<Did(r.db, r.table_map, "next_id")>>
             ELSE <<>>
    ELSE <<Did(init_table(s.db, name, seq_step), s.table_map, "catalog")>>

\* set_last_seq_id, effect by effect
set_last_seq_id_steps(s, name, last_seq_id, io) ==
    IF name \in DOMAIN s.table_map /\ is_some(s.table_map[name].seq)
    THEN LET r == set_last_seq_id(s, name, last_seq_id, io)
         IN  <<Did(r.db, r.table_map, "anchor")>>
    ELSE <<>>

\* the effects of the handler of msg, in the order of the code
steps(s, msg, io) ==
    CASE msg.type = "Set" ->
            insert_steps(s, msg.table_name, msg.key, msg.value,
                         msg.last_seq_id, io)
      [] msg.type = "Remove" -> remove_steps(s, msg.table_name, msg.key)
      [] msg.type = "Drop" -> drop_table_steps(s, msg.table_name, io)
      [] msg.type = "NextId" ->
            next_id_steps(s, msg.table_name,
                          unwrap_or(msg.seq_step, DefaultSeqStep))
      [] msg.type = "SetSeqId" ->
            set_last_seq_id_steps(s, msg.table_name, msg.last_seq_id, io)

\* the registry after the first i effects
after(s, tr, i) == IF i = 0 THEN s ELSE [db |-> tr[i].db,
                                         table_map |-> tr[i].table_map]

\* whether one of the first i effects is of this kind
has_done(tr, i, what) == \E j \in 1..i : tr[j].did = what

\* a command runs to its end
Complete(msg) ==
    /\ mailbox = <<>>
    /\ Run(msg, TRUE)
    /\ life' = life_after(life, msg)
    /\ UNCHANGED <<mailbox, arrived, handled, base>>

\* the process dies inside the handler of msg, after its first i effects
\* and before its last: no reply is sent
Crash(msg, i) ==
    LET tr == steps(registry, msg, TRUE)
        mid == after(registry, tr, i)
        t == msg.table_name
    IN  /\ mailbox = <<>>
        /\ status = "running"
        /\ i < Len(tr)
        /\ db' = mid.db
        /\ table_map' = mid.table_map
        /\ status' = "crashed"
        /\ reply' = [type |-> "Crash", table_name |-> t, res |-> Panic,
                     cached |-> t \in DOMAIN table_map, io |-> TRUE]
        /\ live' = IF has_done(tr, i, "anchor")
                   THEN [live EXCEPT ![t] =
                            kept(@, forced(registry, msg, TRUE))]
                   ELSE live
        /\ defined' = IF has_done(tr, i, "catalog")
                      THEN [defined EXCEPT ![t] = Some(step_of(msg))]
                      ELSE defined
        /\ life' = IF i > 0 THEN life_after(life, msg) ELSE life
        /\ UNCHANGED <<mailbox, issued, written, arrived, handled, base,
                       query_vars>>

CrashNext ==
    \/ \E msg \in FaultCmds : Complete(msg)
    \/ \E msg \in FaultCmds :
        \E j \in 1..Len(steps(registry, msg, TRUE)) : Crash(msg, j - 1)
    \/ Restart

CrashSpec == Init /\ [][CrashNext]_vars

-----------------------------------------------------------------------------
(* Config queries against a config actor that holds data and can stop *)

table_vars == <<db, table_map, status, mailbox, reply, issued, live, defined,
                written, life, arrived, handled, base>>

\* the config actor stores, or removes, the data of a key
Publish(key, content) ==
    /\ config.alive
    /\ config' = [config EXCEPT !.data[key] = content]
    /\ UNCHANGED <<answer, table_vars>>

\* the config actor stops, or is started again with its data
StopActor ==
    /\ config.alive
    /\ config' = [config EXCEPT !.alive = FALSE]
    /\ UNCHANGED <<answer, table_vars>>

StartActor ==
    /\ ~config.alive
    /\ config' = [config EXCEPT !.alive = TRUE]
    /\ UNCHANGED <<answer, table_vars>>

\* one call of ConfigQueryRequestHandler::handle
Query(body, delivery, fails) ==
    /\ answer' = ConfigQuery_handle(config, body, delivery, fails)
    /\ UNCHANGED <<config, table_vars>>

QueryNext ==
    \/ \E key \in ConfigKeys :
        \E content \in {None} \cup {Some(c) : c \in Contents} :
            Publish(key, content)
    \/ StopActor
    \/ StartActor
    \/ \E body \in Bodies, delivery \in {"Ok"} \cup MailboxErrors :
        \E fails \in BOOLEAN : Query(body, delivery, fails)

QuerySpec == Init /\ [][QueryNext]_vars

-----------------------------------------------------------------------------
(* What the last reply says *)

Replied(type) == reply.type = type /\ reply.res.tag = "Ok"
GotId == reply.type = "NextId" /\ ids_of(reply.res) # {}
the_id(ret) == ret.val.id
returns_id(ret) == ret.tag = "Ok" /\ ret.val.kind = "NextId"
has_seq(tm, t) == t \in DOMAIN tm /\ is_some(tm[t].seq)
state_of(out) == [db |-> out.db, table_map |-> out.table_map]
catalog_names(d) == {definition.name : definition \in catalog(d)}

-----------------------------------------------------------------------------
(* C1 *)

\* C1 (as claimed): the first NextId on a name that is not cached creates
\* the table with its sequence enabled and returns an allocated ID; on a
\* table that never issued an ID before, that ID is 1.
C1_FirstNextIdAllocates ==
    (reply.type = "NextId" /\ ~reply.cached) =>
        /\ returns_id(reply.res)
        /\ has_seq(table_map, reply.table_name)
        /\ (issued[reply.table_name] \subseteq {1} => the_id(reply.res) = 1)

-----------------------------------------------------------------------------
(* C2 *)

\* C2: on a table that has a sequence, the NextId that follows a NextId
\* returns a greater ID, whatever seq_step it carries; so N NextId calls in a
\* row return N strictly increasing, pairwise distinct IDs.
C2_MonotonicSequence ==
    (GotId /\ status = "running") =>
        \A st \in SeqSteps :
            LET again == handle_NextId(registry,
                                       Cmd_NextId(reply.table_name, st))
            IN  /\ returns_id(again.ret)
                /\ the_id(again.ret) > the_id(reply.res)

C2_Witness ==
    /\ GotId
    /\ the_id(reply.res) = 3
    /\ live[reply.table_name] = {1, 2, 3}

-----------------------------------------------------------------------------
(* C3 *)

\* the ID the first NextId after a restart returns for table t
first_id_after_restart(t) ==
    the_id(handle_NextId(registry, Cmd_NextId(t, None)).ret)

\* C3 (as claimed): every ID returned after a restart is greater than every
\* ID returned for that table before the restart.
C3_NeverReissued ==
    reply.type = "Restart" =>
        \A t \in SeqNames :
            has_seq(table_map, t) =>
                \A i \in issued[t] : first_id_after_restart(t) > i

\* C3 (amended): after a restart the first ID returned for a table is the
\* persisted anchor plus one, and it is greater than every ID returned
\* before that the anchor has not been forced below since.
C3_NoReissueAcrossRestart ==
    reply.type = "Restart" =>
        \A t \in SeqNames :
            has_seq(table_map, t) =>
                /\ first_id_after_restart(t) = anchor(db, "seq_" \o t) + 1
                /\ \A i \in live[t] : first_id_after_restart(t) > i

C3_Witness ==
    /\ reply.type = "Restart"
    /\ has_seq(table_map, "a")
    /\ live["a"] = {1, 2}
    /\ first_id_after_restart("a") = SmallStep + 1

-----------------------------------------------------------------------------
(* C4 *)

\* C4: after a restart every name that was defined by a first Set (step 0)
\* or a first NextId (its step) is cached again, with a sequence if and only
\* if the step it was last defined with is not 0.
C4_RoundTrip ==
    reply.type = "Restart" =>
        \A t \in Names :
            is_some(defined[t]) =>
                /\ t \in DOMAIN table_map
                /\ is_some(table_map[t].seq) <=> unwrap(defined[t]) # 0

C4_Witness ==
    /\ reply.type = "Restart"
    /\ defined["a"] = Some(SmallStep)
    /\ defined["b"] = Some(0)
    /\ has_seq(table_map, "a")
    /\ "b" \in DOMAIN table_map /\ ~has_seq(table_map, "b")

-----------------------------------------------------------------------------
(* C5 *)

\* the reply to NextId for t after Set{t, k, v, Some(x)}, with the registry
\* rebuilt from the database in between when restart is TRUE
next_after_set(t, k, v, x, restart) ==
    LET set == handle_Set(registry, Cmd_Set(t, k, v, Some(x)), TRUE)
        s1 == IF restart THEN TableManage_new(set.db) ELSE state_of(set)
    IN  handle_NextId(s1, Cmd_NextId(t, None)).ret

\* C5 (as claimed): for any table name and any X, Set with last_seq_id X
\* followed by NextId returns an ID greater than X, with or without a
\* restart between the two.
C5_FastForward ==
    status = "running" =>
        \A t \in SeqNames, k \in Keys, v \in Values, x \in 0..MaxSeqId :
            \A restart \in BOOLEAN :
                LET ret == next_after_set(t, k, v, x, restart)
                IN  returns_id(ret) /\ the_id(ret) > x

\* C5 (amended): for a table cached with a sequence, Set with last_seq_id X
\* followed by NextId returns an ID greater than X, with or without a
\* restart between the two; for a table cached without a sequence, and for
\* a name that is not cached (the Set creates it without a sequence), the
\* NextId returns no ID.
C5_FastForwardWithSeq ==
    status = "running" =>
        \A t \in SeqNames, k \in Keys, v \in Values, x \in 0..MaxSeqId :
            \A restart \in BOOLEAN :
                LET ret == next_after_set(t, k, v, x, restart)
                IN  IF has_seq(table_map, t)
                    THEN returns_id(ret) /\ the_id(ret) > x
                    ELSE ret = Ok(Result_None)

\* a Set with last_seq_id MaxSeqId has acted on a table that has a sequence
\* and had issued IDs
C5_Witness ==
    /\ reply.type = "Set" /\ reply.cached
    /\ has_seq(table_map, "a")
    /\ issued["a"] # {}
    /\ anchor(db, "seq_a") = MaxSeqId
    /\ first_id_after_restart("a") = MaxSeqId + 1

-----------------------------------------------------------------------------
(* C7 *)

\* C7: Drop of a name that is not cached changes nothing and returns None;
\* a second Drop leaves the state and the result of the first; after a Drop,
\* Remove of any key of that table returns None and changes nothing.
C7_DropIdempotent ==
    status = "running" =>
        \A t \in Names :
            LET once == handle_Drop(registry, Cmd_Drop(t), TRUE)
                twice == handle_Drop(state_of(once), Cmd_Drop(t), TRUE)
            IN  /\ t \notin DOMAIN table_map =>
                        once = Out(db, table_map, Ok(Result_None))
                /\ twice = once
                /\ \A k \in Keys :
                        handle_Remove(state_of(once), Cmd_Remove(t, k))
                            = Out(once.db, once.table_map, Ok(Result_None))

\* a Drop has acted on a cached table that has a catalog entry
C7_Witness ==
    /\ Replied("Drop") /\ reply.cached
    /\ reply.table_name \notin DOMAIN table_map
    /\ reply.table_name \in catalog_names(db)
    /\ ("t_" \o reply.table_name) \notin DOMAIN db.trees

-----------------------------------------------------------------------------
(* C8 *)

\* C8: Remove on a name that is not in table_map returns None and leaves
\* the catalog, table_map, the partitions and the anchors as they were.
C8_RemoveNeverCreates ==
    status = "running" =>
        \A t \in Names \ DOMAIN table_map, k \in Keys :
            handle_Remove(registry, Cmd_Remove(t, k))
                = Out(db, table_map, Ok(Result_None))

\* a Remove has acted on a name no Set or NextId ever referenced
C8_Witness ==
    /\ Replied("Remove") /\ ~reply.cached
    /\ reply.res = Ok(Result_None)
    /\ defined[reply.table_name] = None
    /\ reply.table_name \notin catalog_names(db)
    /\ reply.table_name \notin DOMAIN table_map
    /\ ("t_" \o reply.table_name) \notin DOMAIN db.trees

-----------------------------------------------------------------------------
(* C9 *)

\* C9 (as claimed): NextId on a table that is cached without a sequence is
\* answered with an error, not with the Ok(None) of a command that returns
\* no value.
C9_SeqDisabledIsError ==
    (/\ reply.type = "NextId" /\ reply.cached
     /\ ~has_seq(table_map, reply.table_name)) =>
        reply.res.tag = "Err"

-----------------------------------------------------------------------------
(* C6 *)

\* every value a data partition holds is one of the whole values sent
WholeValues ==
    \A t \in Names :
        ("t_" \o t) \in DOMAIN db.trees =>
            \A k \in DOMAIN db.trees["t_" \o t] :
                db.trees["t_" \o t][k] \in Values

\* C6 (as claimed): with NextId and Set commands (with or without
\* last_seq_id) of several producers interleaved in the mailbox, no NextId
\* receives an ID that a NextId received before, and every key holds a whole
\* value that was sent.
C6_NoDuplicateId ==
    [][handled' = handled + 1 =>
            /\ ids_of(reply'.res) \cap issued[reply'.table_name] = {}
            /\ WholeValues']_vars

-----------------------------------------------------------------------------
(* C10 *)

\* the commands applied one after the other, each on what the one before
\* left, up to a panic
RECURSIVE Replay(_, _)
Replay(out, cmds) ==
    IF cmds = <<>> \/ out.ret.tag = "Panic" THEN out
    ELSE Replay(handle(state_of(out), Head(cmds), TRUE), Tail(cmds))

-----------------------------------------------------------------------------
(* C11 *)

\* the data partition of table t, if the database has it
partition(d, t) ==
    IF ("t_" \o t) \in DOMAIN d.trees THEN Some(d.trees["t_" \o t]) ELSE None

\* what key k of table t holds
value_of(d, t, k) ==
    IF is_some(partition(d, t)) THEN tree_get(unwrap(partition(d, t)), k)
    ELSE None

\* the reply that carries the prior value o of a key
prior(o) == Ok(IF is_some(o) THEN Result_Value(unwrap(o)) ELSE Result_None)

\* C11: Set returns the value last written under its key in its table and
\* not removed or dropped since (None if there is none) and leaves the new
\* value under the key; Remove on a cached table returns that same prior
\* value and leaves the key absent; neither changes a key of another table.
C11_PriorValue ==
    status = "running" =>
        \A t \in Names, k \in Keys :
            /\ \A v \in Values, l \in LastSeqIds, io \in BOOLEAN :
                    LET out == handle_Set(registry, Cmd_Set(t, k, v, l), io)
                    IN  /\ out.ret = prior(written[t][k])
                        /\ value_of(out.db, t, k) = Some(v)
                        /\ \A u \in Names \ {t} :
                                partition(out.db, u) = partition(db, u)
            /\ t \in DOMAIN table_map =>
                    LET out == handle_Remove(registry, Cmd_Remove(t, k))
                    IN  /\ out.ret = prior(written[t][k])
                        /\ value_of(out.db, t, k) = None
                        /\ \A u \in Names \ {t} :
                                partition(out.db, u) = partition(db, u)

\* a Set has returned the value an earlier Set wrote, on a table that was
\* dropped and written again before, while the other table holds a value
C11_Witness ==
    /\ reply.type = "Set" /\ reply.cached
    /\ reply.res = Ok(Result_Value(<<1, 1>>))
    /\ written["a"]["k"] = Some(<<2, 2>>)
    /\ value_of(db, "a", "k") = Some(<<2, 2>>)
    /\ value_of(db, "b", "k") = Some(<<1, 1>>)
    /\ issued["a"] # {}

-----------------------------------------------------------------------------
(* C12 *)

\* C12: Drop of a cached table returns None and leaves the name out of
\* table_map and the database without the table's data partition, whether
\* the reset of the sequence anchor succeeds or fails; when the table has a
\* sequence and the reset succeeds, the anchor is 0 afterwards.
C12_DropAlways ==
    status = "running" =>
        \A t \in DOMAIN table_map, io \in BOOLEAN :
            LET out == handle_Drop(registry, Cmd_Drop(t), io)
            IN  /\ out.ret = Ok(Result_None)
                /\ t \notin DOMAIN out.table_map
                /\ partition(out.db, t) = None
                /\ (io /\ has_seq(table_map, t)) =>
                        anchor(out.db, "seq_" \o t) = 0

\* a Drop has acted on a cached table that held data and had issued IDs,
\* and the reset of its anchor failed
C12_Witness ==
    /\ reply.type = "Drop" /\ reply.cached /\ ~reply.io
    /\ reply.res = Ok(Result_None)
    /\ "a" \notin DOMAIN table_map
    /\ partition(db, "a") = None
    /\ issued["a"] # {}
    /\ anchor(db, "seq_a") # 0

-----------------------------------------------------------------------------
(* C13 *)

\* the TableInfo without what its sequence has buffered in memory
unbuffered(info) ==
    IF is_some(info.seq)
    THEN [info EXCEPT !.seq = Some([unwrap(info.seq) EXCEPT !.last = 0,
                                                           !.limit = 0])]
    ELSE info

\* C13: SetSeqId for a name that is not in table_map returns None and
\* leaves table_map and the database (catalog, partitions, anchors) as they
\* were; for a cached table with a sequence it returns None, makes the
\* anchor of that table the given value and changes nothing else: the
\* trees, the other anchors, the cached names and the other TableInfos stay.
C13_SetSeqIdFrame ==
    status = "running" =>
        \A t \in Names, x \in 0..MaxSeqId :
            /\ t \notin DOMAIN table_map =>
                    \A io \in BOOLEAN :
                        handle_SetSeqId(registry, Cmd_SetSeqId(t, x), io)
                            = Out(db, table_map, Ok(Result_None))
            /\ has_seq(table_map, t) =>
                    LET out == handle_SetSeqId(registry, Cmd_SetSeqId(t, x),
                                               TRUE)
                    IN  /\ out.ret = Ok(Result_None)
                        /\ anchor(out.db, "seq_" \o t) = x
                        /\ out.db = set_anchor(db, "seq_" \o t, x)
                        /\ DOMAIN out.table_map = DOMAIN table_map
                        /\ \A u \in DOMAIN table_map \ {t} :
                                out.table_map[u] = table_map[u]
                        /\ unbuffered(out.table_map[t])
                                = unbuffered(table_map[t])

\* a SetSeqId has acted on a cached table with a sequence that had issued
\* IDs above its value, while the other table holds data
C13_Witness ==
    /\ reply.type = "SetSeqId" /\ reply.cached
    /\ has_seq(table_map, "a")
    /\ issued["a"] = {1, 2, 3, 4}
    /\ anchor(db, "seq_a") = MaxSeqId
    /\ value_of(db, "b", "k") = Some(<<1, 1>>)

-----------------------------------------------------------------------------
(* C14 *)

\* the catalog record stored for name t, decoded, if there is one
entry(d, t) ==
    IF t \in DOMAIN d.trees[TABLE_DEFINITION_TREE_NAME]
    THEN Some(from_bytes(d.trees[TABLE_DEFINITION_TREE_NAME][t]))
    ELSE None

\* C14: a name no Set or NextId ever referenced has no catalog entry; from
\* the first Set or NextId that references a name the catalog holds the
\* definition that this command wrote, step 0 for a Set and the step of the
\* NextId, and it holds the same definition after every later command and
\* every restart as long as no Drop of that name has been sent.
C14_DefinitionPersists ==
    \A t \in Names :
        /\ (life[t].first = None /\ ~life[t].dropped) => entry(db, t) = None
        /\ (is_some(life[t].first) /\ ~life[t].dropped) =>
                entry(db, t) = Some([name |-> t,
                                     sequence_step |-> unwrap(life[t].first)])

\* after a restart the table still has the definition its first command, a
\* NextId, wrote; it has issued IDs since, holds data, had its anchor moved
\* back and was never dropped
C14_Witness ==
    /\ reply.type = "Restart"
    /\ life["a"] = [first |-> Some(SmallStep), dropped |-> FALSE]
    /\ issued["a"] = {1, 2, 3}
    /\ is_some(written["a"]["k"])
    /\ anchor(db, "seq_a") = 0

-----------------------------------------------------------------------------
(* C17 *)

\* the effects of a handler, all done, leave what the handler leaves
StepsAgree ==
    \A msg \in FaultCmds, io \in BOOLEAN :
        LET tr == steps(registry, msg, io)
        IN  after(registry, tr, Len(tr))
                = state_of(handle(registry, msg, io))

\* C17: in every reachable state, the states a crash inside a command
\* leaves and the states after the restart that follows included, every
\* name in table_map has a catalog entry and every data partition t_<name>
\* that exists has a catalog entry for <name>.
C17_CatalogFirst ==
    \A t \in Names :
        /\ t \in DOMAIN table_map => is_some(entry(db, t))
        /\ is_some(partition(db, t)) => is_some(entry(db, t))

\* the process died inside the Set that creates a table, after the data
\* partition was opened and before the TableInfo was cached
C17_Witness ==
    /\ status = "crashed"
    /\ reply.type = "Crash" /\ ~reply.cached
    /\ "a" \notin DOMAIN table_map
    /\ partition(db, "a") = Some(EmptyTree)
    /\ entry(db, "a") = Some([name |-> "a", sequence_step |-> 0])

-----------------------------------------------------------------------------
(* C15 *)

\* the step of the sequence the TableInfo of t carries, 0 without a sequence
cached_step(tm, t) ==
    IF has_seq(tm, t) THEN unwrap(tm[t].seq).step ELSE 0

\* C15: NextId for a name that is not in table_map writes the catalog entry
\* of the name with sequence_step 100 when it carries no seq_step and with
\* sequence_step s when it carries seq_step s; the registry built from the
\* database afterwards caches the table with that step.
C15_DefaultStep ==
    status = "running" =>
        \A t \in Names \ DOMAIN table_map :
            /\ LET out == handle_NextId(registry, Cmd_NextId(t, None))
               IN  /\ entry(out.db, t)
                        = Some([name |-> t, sequence_step |-> 100])
                   /\ cached_step(TableManage_new(out.db).table_map, t) = 100
            /\ \A x \in 0..SmallStep :
                    LET out == handle_NextId(registry, Cmd_NextId(t, Some(x)))
                    IN  /\ entry(out.db, t)
                            = Some([name |-> t, sequence_step |-> x])
                        /\ cached_step(TableManage_new(out.db).table_map, t)
                                = x

\* a NextId without seq_step has acted on a name that was not cached and
\* whose catalog entry had another step, and the catalog says 100 now
C15_Witness ==
    /\ reply.type = "NextId" /\ ~reply.cached
    /\ defined["a"] = Some(100)
    /\ entry(db, "a") = Some([name |-> "a", sequence_step |-> 100])
    /\ issued["a"] # {}

-----------------------------------------------------------------------------
(* C18 *)

\* C18: in every reachable state every table in table_map has a catalog
\* entry, and its TableInfo has a sequence if and only if the sequence_step
\* of that entry is not 0; the sequence then has the step of the entry.
C18_SeqMatchesCatalog ==
    \A t \in DOMAIN table_map :
        /\ is_some(entry(db, t))
        /\ is_some(table_map[t].seq)
                <=> unwrap(entry(db, t)).sequence_step # 0
        /\ cached_step(table_map, t) = unwrap(entry(db, t)).sequence_step

\* a table that had a sequence and issued IDs was dropped and created again
\* by a Set: it is cached without a sequence and its entry has step 0; the
\* other table is cached too
C18_Witness ==
    /\ reply.type = "Set" /\ ~reply.cached /\ reply.table_name = "a"
    /\ issued["a"] # {}
    /\ "a" \in DOMAIN table_map /\ ~has_seq(table_map, "a")
    /\ entry(db, "a") = Some([name |-> "a", sequence_step |-> 0])
    /\ "b" \in DOMAIN table_map

-----------------------------------------------------------------------------
(* C19 *)

\* table t is cached without a sequence
plain(tm, t) == t \in DOMAIN tm /\ ~has_seq(tm, t)

\* C19: a Set for a name that is not cached, with or without last_seq_id,
\* leaves the table cached without a sequence and with catalog step 0; a
\* table cached without a sequence stays so through every command but a
\* Drop of it and through every restart; and NextId on such a table, with
\* any seq_step, returns no ID and leaves table_map and the database
\* (catalog, data, anchors) as they were.
C19_SetCreatesNoSequence ==
    [][\A t \in Names :
        /\ (reply'.type = "Set" /\ ~reply'.cached /\ reply'.table_name = t)
                => /\ plain(table_map', t)
                   /\ entry(db', t) = Some([name |-> t, sequence_step |-> 0])
        /\ (plain(table_map, t)
                /\ ~(reply'.type = "Drop" /\ reply'.table_name = t))
                => /\ plain(table_map', t)
                   /\ entry(db', t) = Some([name |-> t, sequence_step |-> 0])
        /\ (plain(table_map, t) /\ status = "running")
                => \A st \in SeqSteps :
                        handle_NextId(registry, Cmd_NextId(t, st))
                            = Out(db, table_map, Ok(Result_None))
      ]_vars

\* a NextId has acted on a table that a Set created and that holds data:
\* no ID, nothing issued for the name so far
C19_Witness ==
    /\ reply.type = "NextId" /\ reply.cached
    /\ reply.res = Ok(Result_None)
    /\ plain(table_map, "a")
    /\ defined["a"] = Some(0)
    /\ issued["a"] = {}
    /\ written["a"]["k"] = Some(<<2, 2>>)
    /\ value_of(db, "a", "k") = Some(<<2, 2>>)

-----------------------------------------------------------------------------
(* C20 *)

\* every command that can be sent for table t
Cmds(t) ==
    {Cmd_Set(t, k, v, l) : k \in Keys, v \in Values, l \in LastSeqIds}
    \cup {Cmd_Remove(t, k) : k \in Keys}
    \cup {Cmd_Drop(t)}
    \cup {Cmd_NextId(t, st) : st \in SeqSteps}
    \cup {Cmd_SetSeqId(t, l) : l \in 0..MaxSeqId}

\* C20: Drop leaves the catalog tree as it was, so the registry built from
\* the database right after the Drop of a cached table caches the name
\* again, with a sequence of the step of its entry (none for step 0); and
\* a handler that writes a catalog entry (calls init_table) writes the one
\* of its own table and does it only when that table is not in table_map:
\* the entries of the cached names are the same before and after any
\* command.
C20_DropKeepsCatalog ==
    status = "running" =>
        \A t \in Names, io \in BOOLEAN :
            /\ LET out == handle_Drop(registry, Cmd_Drop(t), io)
                   again == TableManage_new(out.db).table_map
               IN  /\ out.db.trees[TABLE_DEFINITION_TREE_NAME]
                        = db.trees[TABLE_DEFINITION_TREE_NAME]
                   /\ t \in DOMAIN table_map =>
                        /\ t \notin DOMAIN out.table_map
                        /\ t \in DOMAIN again
                        /\ cached_step(again, t)
                                = unwrap(entry(db, t)).sequence_step
            /\ \A msg \in Cmds(t) :
                    LET tr == steps(registry, msg, io)
                        out == handle(registry, msg, io)
                    IN  /\ has_done(tr, Len(tr), "catalog") =>
                                t \notin DOMAIN table_map
                        /\ \A u \in DOMAIN table_map :
                                entry(out.db, u) = entry(db, u)
                        /\ \A u \in Names \ {t} :
                                entry(out.db, u) = entry(db, u)

\* after a restart the table is cached again, with the sequence of its
\* catalog entry, although a Drop was sent for it: it has no data partition
\* and its anchor is back at 0 after issuing IDs
C20_Witness ==
    /\ reply.type = "Restart"
    /\ life["a"].dropped
    /\ has_seq(table_map, "a")
    /\ cached_step(table_map, "a") = SmallStep
    /\ partition(db, "a") = None
    /\ issued["a"] # {} /\ live["a"] = {}
    /\ anchor(db, "seq_a") = 0

-----------------------------------------------------------------------------
(* C16 *)

\* the response of a returned payload
response_of(res) == res.val.json

\* C16: when the send to the config actor fails (the actor is stopped, or
\* the message is not delivered) the handler does not abort: it returns a
\* ConfigQueryResponse payload with result_code and error_code the error
\* code and the text of the MailboxError as message; and whenever the
\* handler returns a response, its result_code is the success code if and
\* only if the actor returned config data.
C16_DeliveryFailure ==
    /\ (is_some(answer.sent) /\ unwrap(answer.sent).tag = "Err") =>
            /\ answer.res.tag = "Ok"
            /\ answer.res.val.type = "ConfigQueryResponse"
            /\ response_of(answer.res).result_code = ERROR_CODE
            /\ response_of(answer.res).error_code = ERROR_CODE
            /\ response_of(answer.res).message
                    = Some(to_string(unwrap(answer.sent).err))
    /\ (answer.res # None /\ answer.res.tag = "Ok") =>
            (response_of(answer.res).result_code = SUCCESS_CODE
                <=> /\ unwrap(answer.sent).tag = "Ok"
                    /\ unwrap(answer.sent).val.tag = "Ok"
                    /\ unwrap(answer.sent).val.val.kind = "DATA")

\* a query for a key the actor holds data for was sent while the actor was
\* stopped: the send failed and the handler returned the error response
C16_Witness ==
    /\ ~config.alive
    /\ config.data[ConfigKey_new("d1", "g", "")] = Some("c1")
    /\ answer.sent = Some(Err("Closed"))
    /\ answer.res.tag = "Ok"
    /\ response_of(answer.res).message = Some("Mailbox has closed")

====
